---- MODULE Spec2Model ----
(***************************************************************************)
(* bleah: a BLE scanner with a terminal dashboard.                         *)
(*                                                                         *)
(*   src/src/main.rs  AppState (device list, status, selection) and the    *)
(*                    interactive loop run_app                             *)
(*   src/src/lib.rs   scan_loop (the poll loop) and the data types         *)
(*                                                                         *)
(* Spec      any sequence of AppState operations (apply, select_next,      *)
(*           select_previous) from AppState::new                           *)
(* SpecScan  scan_loop against an adapter whose calls succeed or fail and  *)
(*           a cancellation sender that publishes true once                *)
(* SpecScanFair  scan_loop on its own after the user has quit, with a fair *)
(*           select! and adapter calls that return                         *)
(* SpecRun   run_app (drain, draw, poll, quit, shutdown) together with the *)
(*           task that runs scan_loop; run_app always takes its next step  *)
(* SpecDecode  the Ruuvi decoder and decoded_details on a set of devices   *)
(*           and registries                                                *)
(***************************************************************************)
EXTENDS Integers, Sequences, FiniteSets, TLC

(* Bound: how many distinct peripheral ids exist; a batch holds each id at *)
(* most once (lib.rs:11 and btleplug's peripherals(), keyed by id), so it  *)
(* is also the longest batch.                                              *)
NumIds == 3

(***************************************************************************)
(* Rust values                                                             *)
(***************************************************************************)

(* Option<T>: None is the empty sequence, Some(x) the one-element one.     *)
None == <<>>

Some(x) == <<x>>

(* A String is the sequence of its bytes, so that String::cmp is computed. *)
(* Ids "1", "2", ...; names "A" and "AB" (one a prefix of the other).      *)
Ids == {<<48 + i>> : i \in 1..NumIds}

Names == {<<65>>, <<65, 66>>}

(* DeviceInfo restricted to the fields AppState reads (id, name).          *)
DeviceInfo == [id : Ids, name : Names]

(* Ord for String: lexicographic by byte, a proper prefix being smaller.   *)
RECURSIVE cmp(_, _)
cmp(a, b) ==
    IF a = <<>> /\ b = <<>> THEN "Equal"
    ELSE IF a = <<>> THEN "Less"
    ELSE IF b = <<>> THEN "Greater"
    ELSE IF Head(a) < Head(b) THEN "Less"
    ELSE IF Head(a) > Head(b) THEN "Greater"
    ELSE cmp(Tail(a), Tail(b))

(* Ordering::then                                                          *)
then(first, second) == IF first = "Equal" THEN second ELSE first

(* The comparator handed to sort_by: name first, id as tie-breaker.        *)
device_cmp(a, b) == then(cmp(a.name, b.name), cmp(a.id, b.id))

(* Insertion of x behind every element that is not greater than it.        *)
RECURSIVE insert_sorted(_, _)
insert_sorted(s, x) ==
    IF s = <<>> THEN <<x>>
    ELSE IF device_cmp(x, Head(s)) = "Less" THEN <<x>> \o s
    ELSE <<Head(s)>> \o insert_sorted(Tail(s), x)

RECURSIVE sort_from(_, _)
sort_from(acc, rest) ==
    IF rest = <<>> THEN acc
    ELSE sort_from(insert_sorted(acc, Head(rest)), Tail(rest))

(* A mis-ordered comparator: id first, name as tie-breaker.                *)
RECURSIVE insert_by_id(_, _)
insert_by_id(s, x) ==
    IF s = <<>> THEN <<x>>
    ELSE IF then(cmp(x.id, Head(s).id), cmp(x.name, Head(s).name)) = "Less"
         THEN <<x>> \o s
    ELSE <<Head(s)>> \o insert_by_id(Tail(s), x)

RECURSIVE sort_by_id_first(_)
sort_by_id_first(list) ==
    IF list = <<>> THEN <<>>
    ELSE insert_by_id(sort_by_id_first(SubSeq(list, 1, Len(list) - 1)),
                      list[Len(list)])

(* devices.sort_by(..): a stable sort, here by insertion.                  *)
sort_by(list) == sort_from(<<>>, list)

(* Vec::get with a 0-based index.                                          *)
get(devs, index) ==
    IF index < Len(devs) THEN Some(devs[index + 1]) ELSE None

(* iter().position(|device| device.id == id): the first match, 0-based.    *)
position(devs, id) ==
    LET hits == {i \in 1..Len(devs) : devs[i].id = id}
    IN  IF hits = {} THEN None
        ELSE Some((CHOOSE i \in hits : \A j \in hits : i <= j) - 1)

(* Option<&DeviceInfo> -> Option<String>: .map(|device| device.id.clone()) *)
map_id(device) == IF device = None THEN None ELSE Some(device[1].id)

(***************************************************************************)
(* State                                                                   *)
(***************************************************************************)
VARIABLES
    devices,      \* AppState.devices
    status,       \* AppState.status
    selected_id,  \* AppState.selected_id : Option<String>
    table_state,  \* AppState.table_state.selected() : Option<usize>
    op,           \* the AppState operation that produced this state
    msg,          \* the message that operation was given, when it is apply
    pre,          \* the anchor id apply(Devices) started from
                  \* (main.rs:37-40) : Option
    pre_index     \* the selected index select_next or select_previous
                  \* started from : Option

app_vars ==
    <<devices, status, selected_id, table_state, op, msg, pre, pre_index>>

(* A text produced by format!: the literal part and the cause.             *)
Causes == {"timeout"}

StatusTexts ==
    {<<"No BLE adapters found">>} \cup
    {<<"Scan error: ", e>> : e \in Causes}

(* The batches a poll cycle can report: ids unique within the batch.       *)
Batches ==
    {s \in UNION {[1..n -> DeviceInfo] : n \in 0..NumIds} :
        \A i, j \in 1..Len(s) : s[i].id = s[j].id => i = j}

Devices(list) == [kind |-> "Devices", devices |-> list]

Status(text) == [kind |-> "Status", status |-> text]

(***************************************************************************)
(* AppState                                                                *)
(***************************************************************************)

(* AppState::selected_device, as the id of the device it returns.          *)
selected_device ==
    IF table_state = None THEN None ELSE get(devices, table_state[1])

(* AppState::new                                                           *)
new ==
    /\ devices = <<>>
    /\ status = <<"Starting scan...">>
    /\ selected_id = None
    /\ table_state = Some(0)
    /\ op = "new"
    /\ msg = None
    /\ pre = None
    /\ pre_index = None

(* The anchor: the explicit id, or else the id of the device selected by   *)
(* index.                                                                  *)
anchor_id ==
    IF selected_id # None THEN selected_id ELSE map_id(selected_device)

(* A reconciliation that forgets the anchor.                               *)
reconcile_index_first(devs, anchor) ==
    IF devs = <<>> THEN None ELSE Some(0)

(* A reconciliation without the fallback to the first device.              *)
reconcile_index_nofallback(devs, anchor) ==
    IF anchor = None THEN None ELSE position(devs, anchor[1])

(* The index selected in the new list: the anchor's, else 0, else none.    *)
reconcile_index(devs, anchor) ==
    LET found == IF anchor = None THEN None ELSE position(devs, anchor[1])
    IN  IF found # None THEN found
        ELSE IF devs = <<>> THEN None ELSE Some(0)

(* An explicit id that is not refreshed from the new list.                 *)
stale_selected_id(devs, index) == selected_id

(* The explicit id of the device at the selected index.                    *)
id_at(devs, index) ==
    IF index = None THEN None ELSE map_id(get(devs, index[1]))

(* AppState::apply, ScanMessage::Devices                                   *)
apply_Devices(list) ==
    \E sorted \in {sort_by(list)} :
    \E selected_index \in {reconcile_index(sorted, anchor_id)} :
        /\ devices' = sorted
        /\ table_state' = selected_index
        /\ selected_id' = id_at(sorted, selected_index)
        /\ status' = <<"Scanning...">>
        /\ op' = "apply_Devices"
        /\ msg' = Devices(list)
        /\ pre' = anchor_id
        /\ pre_index' = None

(* A status update that also drops the devices of the last cycle.          *)
apply_Status_clearing(text) ==
    /\ status' = text
    /\ devices' = <<>>
    /\ table_state' = None
    /\ selected_id' = None
    /\ op' = "apply_Status"
    /\ msg' = Status(text)
    /\ pre' = None
    /\ pre_index' = None

(* AppState::apply, ScanMessage::Status                                    *)
apply_Status(text) ==
    /\ status' = text
    /\ UNCHANGED <<devices, table_state, selected_id>>
    /\ op' = "apply_Status"
    /\ msg' = Status(text)
    /\ pre' = None
    /\ pre_index' = None

(* A step forward that stops at the end instead of wrapping.               *)
next_index_clamped(selected, len) ==
    IF selected = None THEN 0
    ELSE IF selected[1] + 1 < len THEN selected[1] + 1 ELSE len - 1

(* The index select_next moves to.                                         *)
next_index(selected, len) ==
    IF selected = None THEN 0 ELSE (selected[1] + 1) % len

(* The index select_previous moves to.                                     *)
previous_index(selected, len) ==
    IF selected # None /\ selected[1] > 0 THEN selected[1] - 1 ELSE len - 1

(* A step forward that also puts the status line back to "Scanning...".    *)
select_next_rescanning ==
    /\ IF devices = <<>>
       THEN /\ table_state' = None
            /\ selected_id' = None
       ELSE LET next == next_index(table_state, Len(devices))
            IN  /\ table_state' = Some(next)
                /\ selected_id' = map_id(get(devices, next))
    /\ devices' = devices
    /\ status' = <<"Scanning...">>
    /\ op' = "select_next"
    /\ msg' = None
    /\ pre' = None
    /\ pre_index' = table_state

(* AppState::select_next                                                   *)
select_next ==
    /\ IF devices = <<>>
       THEN /\ table_state' = None
            /\ selected_id' = None
       ELSE LET next == next_index(table_state, Len(devices))
            IN  /\ table_state' = Some(next)
                /\ selected_id' = map_id(get(devices, next))
    /\ UNCHANGED <<devices, status>>
    /\ op' = "select_next"
    /\ msg' = None
    /\ pre' = None
    /\ pre_index' = table_state

(* A step backward that moves the index and leaves the explicit id.        *)
select_previous_index_only ==
    /\ IF devices = <<>>
       THEN table_state' = None
       ELSE table_state' = Some(previous_index(table_state, Len(devices)))
    /\ UNCHANGED <<devices, status, selected_id>>
    /\ op' = "select_previous"
    /\ msg' = None
    /\ pre' = None
    /\ pre_index' = table_state

(* AppState::select_previous                                               *)
select_previous ==
    /\ IF devices = <<>>
       THEN /\ table_state' = None
            /\ selected_id' = None
       ELSE LET next == previous_index(table_state, Len(devices))
            IN  /\ table_state' = Some(next)
                /\ selected_id' = map_id(get(devices, next))
    /\ UNCHANGED <<devices, status>>
    /\ op' = "select_previous"
    /\ msg' = None
    /\ pre' = None
    /\ pre_index' = table_state

(***************************************************************************)
(* scan_loop                                                               *)
(***************************************************************************)

(* Bound: how many poll cycles the timer starts.                           *)
MaxCycles == 3

VARIABLES
    pc,           \* where scan_loop is: the call it awaits, "select" for the
                  \* select! of the loop, "done" once it has returned,
                  \* "dropped" once the runtime has dropped the task
    adapter,      \* the first adapter : Option
    scanning,     \* the adapter has been told to scan
    tick,         \* interval.tick() is ready
    chan,         \* the messages sent on tx, oldest first
    shutdown,     \* the value held by the watch channel
    changed,      \* the watch channel holds a value scan_loop has not seen
    requests,     \* how many times adapter.peripherals() has been called,
                  \* counted up to MaxCycles
    setup_error,  \* the setup step that failed : Option
    peripherals   \* what adapter.peripherals() last returned : Option

(* run_app: the state of the interactive side.                             *)
VARIABLES
    ui_pc,        \* where run_app is: "drain" for rx.try_recv(), "draw",
                  \* "poll" for event::poll, "send" for shutdown_tx.send,
                  \* "shutdown_timeout", "exited" once it has returned Ok,
                  \* "failed" once it has returned an error
    event,        \* the key last read by event::read() : Option
    rx_alive,     \* rx, the receiving end of the channel, is not dropped
    sends,        \* how many times shutdown_tx.send(true) has been called
    emitted,      \* every message the channel has accepted, oldest first
    applied       \* every message given to AppState::apply, oldest first

scan_vars ==
    <<pc, adapter, scanning, tick, chan, shutdown, changed, requests,
      setup_error, peripherals>>

run_vars == <<ui_pc, event, rx_alive, sends, emitted, applied>>

(* Result::Ok and Result::Err                                              *)
Ok(value) == [kind |-> "Ok", value |-> value]

Err(err) == [kind |-> "Err", err |-> err]

(* "Unknown", the name of a peripheral that reports none.                  *)
Unknown == <<85, 110, 107, 110, 111, 119, 110>>

(* What the adapter reports of a peripheral: its id and, when the          *)
(* properties can be read, its local name.                                 *)
PeripheralA == [id |-> <<49>>, props |-> None]

PeripheralB == [id |-> <<50>>, props |-> Some([local_name |-> Some(<<65>>)])]

PeripheralC == [id |-> <<51>>, props |-> Some([local_name |-> None])]

PeripheralReports ==
    {<<>>, <<PeripheralA>>, <<PeripheralB, PeripheralA>>,
     <<PeripheralC, PeripheralB>>}

AdapterLists == {<<>>, <<"hci0">>, <<"hci0", "hci1">>}

(* One DeviceInfo from one peripheral (lib.rs:97-142), id and name.        *)
device_info(peripheral) ==
    [id |-> peripheral.id,
     name |-> IF peripheral.props # None
                 /\ peripheral.props[1].local_name # None
              THEN peripheral.props[1].local_name[1]
              ELSE Unknown]

(* let _ = tx.send(msg): the message is queued, or, when the receiving end *)
(* has been dropped, the send fails and the failure is ignored.            *)
send(message) == chan' = IF rx_alive THEN Append(chan, message) ELSE chan

scan_loop_start ==
    /\ pc = "manager"
    /\ adapter = None
    /\ scanning = FALSE
    /\ tick = FALSE
    /\ chan = <<>>
    /\ shutdown = FALSE
    /\ changed = FALSE
    /\ requests = 0
    /\ setup_error = None
    /\ peripherals = None

(* Manager::new() fails.                                                   *)
manager_Err(err) ==
    /\ pc = "manager"
    /\ send(Status(<<"BLE manager error: ", err>>))
    /\ pc' = "done"
    /\ setup_error' = Some("manager")
    /\ UNCHANGED <<adapter, scanning, tick, shutdown, changed, requests,
                   peripherals>>

manager_Ok ==
    /\ pc = "manager"
    /\ pc' = "adapters"
    /\ UNCHANGED <<adapter, scanning, tick, chan, shutdown, changed, requests,
                   setup_error, peripherals>>

(* manager.adapters() fails.                                               *)
adapters_Err(err) ==
    /\ pc = "adapters"
    /\ send(Status(<<"Adapter discovery error: ", err>>))
    /\ pc' = "done"
    /\ setup_error' = Some("adapters")
    /\ UNCHANGED <<adapter, scanning, tick, shutdown, changed, requests,
                   peripherals>>

(* manager.adapters() succeeds; the first adapter is taken, if any.        *)
adapters_Ok(list) ==
    /\ pc = "adapters"
    /\ IF list = <<>>
       THEN /\ send(Status(<<"No BLE adapters found">>))
            /\ pc' = "done"
            /\ setup_error' = Some("no adapter")
            /\ UNCHANGED adapter
       ELSE /\ adapter' = Some(Head(list))
            /\ pc' = "start_scan"
            /\ UNCHANGED <<chan, setup_error>>
    /\ UNCHANGED <<scanning, tick, shutdown, changed, requests, peripherals>>

(* A failed start_scan after which the function goes on into the loop.     *)
start_scan_Err_no_return(err) ==
    /\ pc = "start_scan"
    /\ send(Status(<<"Scan failed: ", err>>))
    /\ pc' = "select"
    /\ tick' = TRUE
    /\ setup_error' = Some("start_scan")
    /\ UNCHANGED <<adapter, scanning, shutdown, changed, requests,
                   peripherals>>

(* adapter.start_scan() fails.                                             *)
start_scan_Err(err) ==
    /\ pc = "start_scan"
    /\ send(Status(<<"Scan failed: ", err>>))
    /\ pc' = "done"
    /\ setup_error' = Some("start_scan")
    /\ UNCHANGED <<adapter, scanning, tick, shutdown, changed, requests,
                   peripherals>>

(* adapter.start_scan() succeeds; the interval is created, and its first   *)
(* tick is ready at once.                                                  *)
start_scan_Ok ==
    /\ pc = "start_scan"
    /\ scanning' = TRUE
    /\ tick' = TRUE
    /\ pc' = "select"
    /\ UNCHANGED <<adapter, chan, shutdown, changed, requests, setup_error,
                   peripherals>>

(* The branch of shutdown.changed() without its break.                     *)
select_changed_no_break ==
    /\ pc = "select"
    /\ changed
    /\ changed' = FALSE
    /\ pc' = "select"
    /\ UNCHANGED <<adapter, scanning, tick, chan, shutdown, requests,
                   setup_error, peripherals>>

(* select!, the branch of shutdown.changed(): the value is marked seen and *)
(* read; true leaves the loop. The sender outlives the task (run_app drops *)
(* the runtime before shutdown_tx), so changed() resolves only on a send.  *)
select_changed ==
    /\ pc = "select"
    /\ changed
    /\ changed' = FALSE
    /\ pc' = IF shutdown THEN "done" ELSE "select"
    /\ UNCHANGED <<adapter, scanning, tick, chan, shutdown, requests,
                   setup_error, peripherals>>

(* select!, the branch of interval.tick(): a poll cycle starts with the    *)
(* request for the peripherals. The cancellation value is not read. The    *)
(* bound stops new cycles only while the channel still takes messages.     *)
select_tick ==
    /\ pc = "select"
    /\ tick
    /\ requests < MaxCycles \/ ~rx_alive
    /\ tick' = FALSE
    /\ requests' = IF requests < MaxCycles THEN requests + 1 ELSE requests
    /\ pc' = "peripherals"
    /\ UNCHANGED <<adapter, scanning, chan, shutdown, changed, setup_error,
                   peripherals>>

(* A failed request that ends the function instead of the cycle.           *)
peripherals_Err_return(err) ==
    /\ pc = "peripherals"
    /\ peripherals' = Some(Err(err))
    /\ send(Status(<<"Scan error: ", err>>))
    /\ pc' = "done"
    /\ UNCHANGED <<adapter, scanning, tick, shutdown, changed, requests,
                   setup_error>>

(* adapter.peripherals() fails: a status, and on to the next cycle.        *)
peripherals_Err(err) ==
    /\ pc = "peripherals"
    /\ peripherals' = Some(Err(err))
    /\ send(Status(<<"Scan error: ", err>>))
    /\ pc' = "select"
    /\ UNCHANGED <<adapter, scanning, tick, shutdown, changed, requests,
                   setup_error>>

(* A translation that leaves out the peripherals whose properties cannot   *)
(* be read.                                                                *)
peripherals_Ok_readable_only(report) ==
    /\ pc = "peripherals"
    /\ peripherals' = Some(Ok(report))
    /\ send(Devices(SelectSeq([i \in 1..Len(report) |-> device_info(report[i])],
                              LAMBDA d : d.name # Unknown)))
    /\ pc' = "select"
    /\ UNCHANGED <<adapter, scanning, tick, shutdown, changed, requests,
                   setup_error>>

(* adapter.peripherals() succeeds: every peripheral is translated, in the  *)
(* order reported, and the batch is sent.                                  *)
peripherals_Ok(report) ==
    /\ pc = "peripherals"
    /\ peripherals' = Some(Ok(report))
    /\ send(Devices([i \in 1..Len(report) |-> device_info(report[i])]))
    /\ pc' = "select"
    /\ UNCHANGED <<adapter, scanning, tick, shutdown, changed, requests,
                   setup_error>>

(* The period of the interval has passed.                                  *)
interval_elapsed ==
    /\ pc \in {"select", "peripherals"}
    /\ ~tick
    /\ tick' = TRUE
    /\ UNCHANGED <<pc, adapter, scanning, chan, shutdown, changed, requests,
                   setup_error, peripherals>>

(* run_app: shutdown_tx.send(true), once, when the user quits. The value   *)
(* is stored and marked unseen while the task still holds the receiver;    *)
(* once the task has ended the receiver is gone, the send fails and the    *)
(* failure is ignored.                                                     *)
send_true ==
    /\ ~shutdown
    /\ IF pc \in {"done", "dropped"}
       THEN UNCHANGED <<shutdown, changed>>
       ELSE shutdown' = TRUE /\ changed' = TRUE
    /\ UNCHANGED <<pc, adapter, scanning, tick, chan, requests, setup_error,
                   peripherals>>

(* run_app: runtime.shutdown_timeout, which follows the send: the runtime  *)
(* drops the task at the call it is awaiting.                              *)
runtime_shutdown ==
    /\ shutdown
    /\ pc \notin {"done", "dropped"}
    /\ pc' = "dropped"
    /\ UNCHANGED <<adapter, scanning, tick, chan, shutdown, changed, requests,
                   setup_error, peripherals>>

(***************************************************************************)
(* run_app                                                                 *)
(***************************************************************************)

(* The keys event::read() can return: the two that quit, the two that move *)
(* the selection and one of the others.                                    *)
KeyCodes == {"q", "Esc", "Down", "Up", "Enter"}

(* The calls of scan_loop into the BLE library.                            *)
AdapterCalls == {"manager", "adapters", "start_scan", "peripherals"}

run_app_start ==
    /\ ui_pc = "drain"
    /\ event = None
    /\ rx_alive = TRUE
    /\ sends = 0
    /\ emitted = <<>>
    /\ applied = <<>>

(* AppState::apply                                                         *)
apply(message) ==
    IF message.kind = "Devices"
    THEN apply_Devices(message.devices)
    ELSE apply_Status(message.status)

(* A drain that takes the newest message of the channel.                   *)
try_recv_Ok_newest ==
    /\ ui_pc = "drain"
    /\ chan # <<>>
    /\ apply(chan[Len(chan)])
    /\ chan' = SubSeq(chan, 1, Len(chan) - 1)
    /\ applied' = Append(applied, chan[Len(chan)])
    /\ UNCHANGED <<ui_pc, event, rx_alive, sends>>
    /\ UNCHANGED <<pc, adapter, scanning, tick, shutdown, changed, requests,
                   setup_error, peripherals>>

(* rx.try_recv() returns the oldest message, which is applied; the drain   *)
(* goes on.                                                                *)
try_recv_Ok ==
    /\ ui_pc = "drain"
    /\ chan # <<>>
    /\ apply(Head(chan))
    /\ chan' = Tail(chan)
    /\ applied' = Append(applied, Head(chan))
    /\ UNCHANGED <<ui_pc, event, rx_alive, sends>>
    /\ UNCHANGED <<pc, adapter, scanning, tick, shutdown, changed, requests,
                   setup_error, peripherals>>

(* A drain that leaves the loop when the sending end is gone.              *)
try_recv_Err_disconnected_breaks ==
    /\ ui_pc = "drain"
    /\ chan = <<>>
    /\ ui_pc' = IF pc = "done" THEN "send" ELSE "draw"
    /\ UNCHANGED <<event, rx_alive, sends, applied>>
    /\ UNCHANGED <<app_vars, scan_vars>>

(* rx.try_recv() returns an error, the channel being empty or empty and    *)
(* disconnected: the drain ends and the frame is drawn.                    *)
try_recv_Err ==
    /\ ui_pc = "drain"
    /\ chan = <<>>
    /\ ui_pc' = "draw"
    /\ UNCHANGED <<event, rx_alive, sends, applied>>
    /\ UNCHANGED <<app_vars, scan_vars>>

(* terminal.draw                                                           *)
draw ==
    /\ ui_pc = "draw"
    /\ ui_pc' = "poll"
    /\ UNCHANGED <<event, rx_alive, sends, applied>>
    /\ UNCHANGED <<app_vars, scan_vars>>

(* terminal.draw, event::poll or event::read fails: run_app returns the    *)
(* error; the runtime is dropped, and with it the task, and rx.            *)
io_error ==
    /\ ui_pc \in {"draw", "poll"}
    /\ ui_pc' = "failed"
    /\ rx_alive' = FALSE
    /\ pc' = IF pc = "done" THEN "done" ELSE "dropped"
    /\ UNCHANGED <<event, sends, applied>>
    /\ UNCHANGED <<adapter, scanning, tick, chan, shutdown, changed, requests,
                   setup_error, peripherals>>
    /\ UNCHANGED app_vars

(* event::poll(tick_rate) finds no key within the tick.                    *)
poll_idle ==
    /\ ui_pc = "poll"
    /\ event' = None
    /\ ui_pc' = "drain"
    /\ UNCHANGED <<rx_alive, sends, applied>>
    /\ UNCHANGED <<app_vars, scan_vars>>

(* event::poll finds a key and event::read returns it.                     *)
key(code) ==
    /\ ui_pc = "poll"
    /\ event' = Some(code)
    /\ ui_pc' = IF code \in {"q", "Esc"} THEN "send" ELSE "drain"
    /\ CASE code = "Down" -> select_next
         [] code = "Up" -> select_previous
         [] OTHER -> UNCHANGED app_vars
    /\ UNCHANGED <<rx_alive, sends, applied>>
    /\ UNCHANGED scan_vars

(* let _ = shutdown_tx.send(true)                                          *)
shutdown_tx_send ==
    /\ ui_pc = "send"
    /\ send_true
    /\ sends' = sends + 1
    /\ ui_pc' = "shutdown_timeout"
    /\ UNCHANGED <<event, rx_alive, applied>>
    /\ UNCHANGED app_vars

(* A shutdown that waits for the task to end, however long it takes.       *)
shutdown_timeout_unbounded ==
    /\ ui_pc = "shutdown_timeout"
    /\ pc \in {"done", "dropped"}
    /\ UNCHANGED scan_vars
    /\ ui_pc' = "exited"
    /\ rx_alive' = FALSE
    /\ UNCHANGED <<event, sends, applied>>
    /\ UNCHANGED app_vars

(* runtime.shutdown_timeout(1 s) and the return of run_app, which drops    *)
(* rx: the task is dropped at the call it awaits; or it has ended already, *)
(* or it is blocked inside a call of the BLE library and the grace period  *)
(* runs out, and it stays where it is.                                     *)
shutdown_timeout ==
    /\ ui_pc = "shutdown_timeout"
    /\ \/ runtime_shutdown
       \/ /\ pc \in {"done"} \cup AdapterCalls
          /\ UNCHANGED scan_vars
    /\ ui_pc' = "exited"
    /\ rx_alive' = FALSE
    /\ UNCHANGED <<event, sends, applied>>
    /\ UNCHANGED app_vars

(* run_app has returned and dropped rx while the task is still running.    *)
rx_dropped ==
    /\ shutdown
    /\ rx_alive
    /\ rx_alive' = FALSE
    /\ UNCHANGED <<ui_pc, event, sends, applied>>
    /\ UNCHANGED <<app_vars, scan_vars>>

(***************************************************************************)
(* Decoders                                                                *)
(***************************************************************************)
VARIABLES
    manufacturer_data, \* DeviceInfo.manufacturer_data of the device being
                       \* decoded: its entries <<company id, bytes>>, in the
                       \* order of the keys
    decoders,          \* the registry, in registration order
    ran,               \* which of the three functions below have run
    summary_out,       \* what RuuviDecoder::summary returned
    details_out,       \* what RuuviDecoder::details returned
    decoded_out        \* what decoded_details returned

dec_vars ==
    <<manufacturer_data, decoders, ran, summary_out, details_out, decoded_out>>

(* How a call ends: it returns a value, or it panics (an index out of      *)
(* bounds).                                                                *)
Returned(value) == [panic |-> FALSE, value |-> value]

Panicked == [panic |-> TRUE, value |-> None]

(* BTreeMap::get                                                           *)
map_get(map, k) ==
    LET hits == {i \in 1..Len(map) : map[i][1] = k}
    IN  IF hits = {} THEN None ELSE Some(map[CHOOSE i \in hits : TRUE][2])

(* The company id of Ruuvi, 0x0499.                                        *)
RuuviCompanyId == 1177

(* The first byte of a payload of data format 5.                           *)
Format5 == 5

I16_MIN == -32768

U16_MAX == 65535

i16_from_be_bytes(hi, lo) ==
    IF hi * 256 + lo >= 32768 THEN hi * 256 + lo - 65536 ELSE hi * 256 + lo

(* The bytes read the other way round.                                     *)
u16_from_le_bytes(hi, lo) == lo * 256 + hi

u16_from_be_bytes(hi, lo) == hi * 256 + lo

(* An f32 is kept as sign, significand and exponent: its value is          *)
(* m * 2^e, negated when neg, with m < 2^24.                               *)
f32_from(n) == [neg |-> n < 0, m |-> IF n < 0 THEN 0 - n ELSE n, e |-> 0]

(* The f32 literals 0.005 and 0.0025: the nearest f32 to each.             *)
F32_0_005 == [neg |-> FALSE, m |-> 10737418, e |-> -31]

F32_0_0025 == [neg |-> FALSE, m |-> 10737418, e |-> -32]

bit_length(n) ==
    IF n = 0 THEN 0
    ELSE CHOOSE k \in 1..30 : 2^(k - 1) <= n /\ (k = 30 \/ n < 2^k)

(* x * c in f32, for x an integer below 2^16 in size (x.e = 0): the exact  *)
(* product, kept in two parts hi * 4096 + lo, is rounded to 24 bits, ties  *)
(* to even.                                                                *)
f32_mul(x, c) ==
    LET hi0 == x.m * (c.m \div 4096)
        lo0 == x.m * (c.m % 4096)
        hi == hi0 + (lo0 \div 4096)
        lo == lo0 % 4096
        s == bit_length(hi) - 12
        q == IF s <= 12 THEN hi * 2^(12 - s) + (lo \div 2^s)
                        ELSE hi \div 2^(s - 12)
        r == IF s <= 12 THEN lo % 2^s
                        ELSE (hi % 2^(s - 12)) * 4096 + lo
        m == IF r > 2^(s - 1) \/ (r = 2^(s - 1) /\ q % 2 = 1)
             THEN q + 1 ELSE q
        neg == x.neg # c.neg
    IN  IF s <= 0
        THEN [neg |-> neg, m |-> hi * 4096 + lo, e |-> c.e]
        ELSE IF m = 2^24
             THEN [neg |-> neg, m |-> 2^23, e |-> c.e + s + 1]
             ELSE [neg |-> neg, m |-> m, e |-> c.e + s]

(* The number of tenths "{:.1}" prints for the size of x: the exact value  *)
(* of x times ten, rounded to an integer, ties to even.                    *)
tenths(x) ==
    LET t == 10 * x.m
        k == 0 - x.e
    IN  IF k <= 0 THEN t * 2^x.e
        ELSE IF k >= 29 THEN 0
        ELSE LET q == t \div 2^k
                 r == t % 2^k
             IN  IF r > 2^(k - 1) \/ (r = 2^(k - 1) /\ q % 2 = 1)
                 THEN q + 1 ELSE q

(* format!("{x:.1}")                                                       *)
format_1(x) ==
    (IF x.neg THEN "-" ELSE "")
        \o ToString(tenths(x) \div 10) \o "." \o ToString(tenths(x) % 10)

(* A decoding that reads the two fields low byte first.                    *)
decode_format5_little_endian(data) ==
    IF Len(data) < 5 \/ data[1] # Format5 THEN Returned(None)
    ELSE LET temp_raw == i16_from_be_bytes(data[3], data[2])
             humidity_raw == u16_from_le_bytes(data[4], data[5])
         IN  Returned(Some(
               <<IF temp_raw = I16_MIN THEN None
                 ELSE Some(f32_mul(f32_from(temp_raw), F32_0_005)),
                 IF humidity_raw = U16_MAX THEN None
                 ELSE Some(f32_mul(f32_from(humidity_raw), F32_0_0025))>>))

(* A decoding that checks the format byte and not the length.              *)
decode_format5_unchecked_length(data) ==
    IF data = <<>> \/ data[1] # Format5 THEN Returned(None)
    ELSE IF Len(data) < 5 THEN Panicked
    ELSE LET temp_raw == i16_from_be_bytes(data[2], data[3])
             humidity_raw == u16_from_be_bytes(data[4], data[5])
         IN  Returned(Some(
               <<IF temp_raw = I16_MIN THEN None
                 ELSE Some(f32_mul(f32_from(temp_raw), F32_0_005)),
                 IF humidity_raw = U16_MAX THEN None
                 ELSE Some(f32_mul(f32_from(humidity_raw), F32_0_0025))>>))

(* RuuviDecoder::decode_format5. data[0] of the code is data[1] here; an   *)
(* index past the end of the slice panics.                                 *)
decode_format5(data) ==
    IF Len(data) < 5 \/ data[1] # Format5 THEN Returned(None)
    ELSE IF \E i \in 2..5 : i > Len(data) THEN Panicked
    ELSE LET temp_raw == i16_from_be_bytes(data[2], data[3])
             humidity_raw == u16_from_be_bytes(data[4], data[5])
         IN  Returned(Some(
               <<IF temp_raw = I16_MIN THEN None
                 ELSE Some(f32_mul(f32_from(temp_raw), F32_0_005)),
                 IF humidity_raw = U16_MAX THEN None
                 ELSE Some(f32_mul(f32_from(humidity_raw), F32_0_0025))>>))

(* Vec<String>::join(" ")                                                  *)
RECURSIVE join(_)
join(parts) ==
    IF Len(parts) = 1 THEN parts[1]
    ELSE parts[1] \o " " \o join(Tail(parts))

(* RuuviDecoder::summary                                                   *)
RuuviDecoder_summary(data_of) ==
    IF map_get(data_of, RuuviCompanyId) = None THEN Returned(None)
    ELSE LET decoded == decode_format5(map_get(data_of, RuuviCompanyId)[1])
         IN  IF decoded.panic THEN Panicked
             ELSE IF decoded.value = None THEN Returned(None)
             ELSE LET temp == decoded.value[1][1]
                      humidity == decoded.value[1][2]
                      parts ==
                        (IF temp # None
                         THEN <<format_1(temp[1]) \o " C">> ELSE <<>>)
                        \o (IF humidity # None
                            THEN <<format_1(humidity[1]) \o "%">> ELSE <<>>)
                  IN  IF parts = <<>> THEN Returned(None)
                      ELSE Returned(Some(join(parts)))

DetailItem(label, value) == [label |-> label, value |-> value]

(* RuuviDecoder::details                                                   *)
RuuviDecoder_details(data_of) ==
    IF map_get(data_of, RuuviCompanyId) = None THEN Returned(<<>>)
    ELSE LET decoded == decode_format5(map_get(data_of, RuuviCompanyId)[1])
         IN  IF decoded.panic THEN Panicked
             ELSE IF decoded.value = None THEN Returned(<<>>)
             ELSE LET temp == decoded.value[1][1]
                      humidity == decoded.value[1][2]
                  IN  Returned(
                        (IF temp # None
                         THEN <<DetailItem("Ruuvi temperature",
                                           format_1(temp[1]) \o " C")>>
                         ELSE <<>>)
                        \o (IF humidity # None
                            THEN <<DetailItem("Ruuvi humidity",
                                              format_1(humidity[1]) \o "%")>>
                            ELSE <<>>))

(* The implementations of PeripheralDecoder: RuuviDecoder, and decoders    *)
(* that report the same items of every device.                             *)
RuuviDecoder == [kind |-> "RuuviDecoder", items |-> <<>>]

FixedDecoder(items) == [kind |-> "Fixed", items |-> items]

(* PeripheralDecoder::details                                              *)
details(decoder, data_of) ==
    IF decoder.kind = "RuuviDecoder"
    THEN RuuviDecoder_details(data_of)
    ELSE Returned(decoder.items)

default_decoders == <<RuuviDecoder>>

(* A composition that stops at the first decoder that has something to     *)
(* report.                                                                 *)
RECURSIVE decoded_details_first(_, _)
decoded_details_first(data_of, registry) ==
    IF registry = <<>> THEN Returned(<<>>)
    ELSE IF details(Head(registry), data_of) # Returned(<<>>)
         THEN details(Head(registry), data_of)
         ELSE decoded_details_first(data_of, Tail(registry))

(* decoded_details: flat_map over the registry, front to back.             *)
RECURSIVE flat_map(_, _)
flat_map(data_of, registry) ==
    IF registry = <<>> THEN Returned(<<>>)
    ELSE LET first == details(Head(registry), data_of)
             rest == flat_map(data_of, Tail(registry))
         IN  IF first.panic \/ rest.panic THEN Panicked
             ELSE Returned(first.value \o rest.value)

decoded_details(data_of, registry) == flat_map(data_of, registry)

(* The inputs: bytes that give the two fields small, large, negative and   *)
(* absent values, payloads too short, too long or of another format, and   *)
(* devices with and without the entry of Ruuvi.                            *)
SampleBytes == {0, 1, 5, 10, 16, 39, 64, 127, 128, 144, 156, 254, 255}

FieldBytes == SampleBytes \X SampleBytes

FewFieldBytes == {<<1, 144>>, <<39, 16>>, <<128, 0>>, <<255, 255>>, <<0, 0>>}

FewPayloads == {<<Format5>> \o t \o h : t \in FewFieldBytes, h \in FewFieldBytes}

Payloads ==
    {<<Format5>> \o t \o h : t \in FieldBytes, h \in FewFieldBytes}
    \cup {<<Format5>> \o t \o h : t \in FewFieldBytes, h \in FieldBytes}
    \cup {SubSeq(p, 1, n) : p \in FewPayloads, n \in 0..4}
    \cup {<<b>> \o Tail(p) : b \in {0, 3, 255}, p \in FewPayloads}
    \cup {p \o <<0, 7>> : p \in FewPayloads}

ManufacturerData ==
    {<<>>}
    \cup {<<<<RuuviCompanyId, p>>>> : p \in Payloads}
    \cup {<<<<76, p>>>> : p \in FewPayloads}
    \cup {<<<<76, <<2, 21>>>>, <<RuuviCompanyId, p>>>> : p \in FewPayloads}

FewManufacturerData ==
    {<<>>}
    \cup {<<<<RuuviCompanyId, p>>>> : p \in FewPayloads}
    \cup {<<<<RuuviCompanyId, SubSeq(p, 1, 3)>>>> : p \in FewPayloads}

Battery == DetailItem("Battery", "3.0 V")

Beacon == DetailItem("Beacon", "iBeacon")

Major == DetailItem("Major", "1")

Registries ==
    {<<>>,
     <<RuuviDecoder, RuuviDecoder>>,
     <<FixedDecoder(<<Battery>>), RuuviDecoder>>,
     <<RuuviDecoder, FixedDecoder(<<Battery>>)>>,
     <<FixedDecoder(<<Beacon, Major>>), FixedDecoder(<<>>), RuuviDecoder,
       FixedDecoder(<<Battery>>)>>}

(* No device has been handed to the decoders.                              *)
decode_start ==
    /\ manufacturer_data = <<>>
    /\ decoders = default_decoders
    /\ ran = {}
    /\ summary_out = Returned(None)
    /\ details_out = Returned(<<>>)
    /\ decoded_out = Returned(<<>>)

(* A device is handed to the decoders.                                     *)
decode_input ==
    /\ \/ manufacturer_data \in ManufacturerData /\ decoders = default_decoders
       \/ manufacturer_data \in FewManufacturerData /\ decoders \in Registries
    /\ ran = {}
    /\ summary_out = Returned(None)
    /\ details_out = Returned(<<>>)
    /\ decoded_out = Returned(<<>>)

call_summary ==
    /\ "summary" \notin ran
    /\ ran' = ran \cup {"summary"}
    /\ summary_out' = RuuviDecoder_summary(manufacturer_data)
    /\ UNCHANGED <<manufacturer_data, decoders, details_out, decoded_out>>

call_details ==
    /\ "details" \notin ran
    /\ ran' = ran \cup {"details"}
    /\ details_out' = RuuviDecoder_details(manufacturer_data)
    /\ UNCHANGED <<manufacturer_data, decoders, summary_out, decoded_out>>

call_decoded_details ==
    /\ "decoded_details" \notin ran
    /\ ran' = ran \cup {"decoded_details"}
    /\ decoded_out' = decoded_details(manufacturer_data, decoders)
    /\ UNCHANGED <<manufacturer_data, decoders, summary_out, details_out>>

vars == <<app_vars, scan_vars, run_vars, dec_vars>>

(***************************************************************************)
(* Specifications                                                          *)
(***************************************************************************)

(* An operation of AppState on its own.                                    *)
app_step == UNCHANGED <<scan_vars, run_vars, dec_vars>>

ApplyDevices == (\E list \in Batches : apply_Devices(list)) /\ app_step

ApplyStatus == (\E text \in StatusTexts : apply_Status(text)) /\ app_step

SelectNext == select_next /\ app_step

SelectPrevious == select_previous /\ app_step

Init == new /\ scan_loop_start /\ run_app_start /\ decode_start

Next ==
    \/ ApplyDevices
    \/ ApplyStatus
    \/ SelectNext
    \/ SelectPrevious

Spec == Init /\ [][Next]_vars

(* A step of the task that runs scan_loop: the process is still there, and *)
(* what the channel accepts is recorded.                                   *)
task_step ==
    /\ ui_pc \notin {"exited", "failed"}
    /\ emitted' = emitted \o SubSeq(chan', Len(chan) + 1, Len(chan'))
    /\ UNCHANGED <<ui_pc, event, rx_alive, sends, applied>>
    /\ UNCHANGED <<app_vars, dec_vars>>

ManagerErr == (\E err \in Causes : manager_Err(err)) /\ task_step

ManagerOk == manager_Ok /\ task_step

AdaptersErr == (\E err \in Causes : adapters_Err(err)) /\ task_step

AdaptersOk == (\E list \in AdapterLists : adapters_Ok(list)) /\ task_step

StartScanErr == (\E err \in Causes : start_scan_Err(err)) /\ task_step

StartScanOk == start_scan_Ok /\ task_step

SelectChanged == select_changed /\ task_step

SelectTick == select_tick /\ task_step

PeripheralsErr == (\E err \in Causes : peripherals_Err(err)) /\ task_step

PeripheralsOk ==
    (\E report \in PeripheralReports : peripherals_Ok(report)) /\ task_step

IntervalElapsed == interval_elapsed /\ task_step

SendTrue == send_true /\ task_step

RuntimeShutdown == runtime_shutdown /\ task_step

NextScan ==
    \/ ManagerErr
    \/ ManagerOk
    \/ AdaptersErr
    \/ AdaptersOk
    \/ StartScanErr
    \/ StartScanOk
    \/ SelectChanged
    \/ SelectTick
    \/ PeripheralsErr
    \/ PeripheralsOk
    \/ IntervalElapsed
    \/ SendTrue
    \/ RuntimeShutdown

SpecScan == Init /\ [][NextScan]_vars

(* scan_loop on its own after the user has quit: nothing drops the task,   *)
(* the calls into the BLE library return, and select! is fair to its two   *)
(* branches (it polls them in a random order).                             *)
RxDropped == rx_dropped /\ UNCHANGED <<emitted, dec_vars>>

NextScanFair ==
    \/ ManagerErr
    \/ ManagerOk
    \/ AdaptersErr
    \/ AdaptersOk
    \/ StartScanErr
    \/ StartScanOk
    \/ SelectChanged
    \/ SelectTick
    \/ PeripheralsErr
    \/ PeripheralsOk
    \/ IntervalElapsed
    \/ SendTrue
    \/ RxDropped

SpecScanFair ==
    /\ Init
    /\ [][NextScanFair]_vars
    /\ SF_scan_vars(SelectChanged)
    /\ WF_scan_vars(PeripheralsErr \/ PeripheralsOk)

(* run_app and the task together.                                          *)
ui_step == emitted' = emitted /\ UNCHANGED dec_vars

TryRecvOk == try_recv_Ok /\ ui_step

TryRecvErr == try_recv_Err /\ ui_step

Draw == draw /\ ui_step

IoError == io_error /\ ui_step

PollIdle == poll_idle /\ ui_step

Key == (\E code \in KeyCodes : key(code)) /\ ui_step

ShutdownTxSend == shutdown_tx_send /\ ui_step

ShutdownTimeout == shutdown_timeout /\ ui_step

RunApp ==
    \/ TryRecvOk
    \/ TryRecvErr
    \/ Draw
    \/ IoError
    \/ PollIdle
    \/ Key
    \/ ShutdownTxSend
    \/ ShutdownTimeout

NextRun ==
    \/ ManagerErr
    \/ ManagerOk
    \/ AdaptersErr
    \/ AdaptersOk
    \/ StartScanErr
    \/ StartScanOk
    \/ SelectChanged
    \/ SelectTick
    \/ PeripheralsErr
    \/ PeripheralsOk
    \/ IntervalElapsed
    \/ RunApp

(* The interactive loop runs on the main thread and each of its waits is   *)
(* bounded (the tick of event::poll, the grace period of the shutdown), so *)
(* it always takes its next step.                                          *)
SpecRun == Init /\ [][NextRun]_vars /\ WF_run_vars(RunApp)

(* The decoders on their own, on every input of decode_input.              *)
dec_step == UNCHANGED <<app_vars, scan_vars, run_vars>>

CallSummary == call_summary /\ dec_step

CallDetails == call_details /\ dec_step

CallDecodedDetails == call_decoded_details /\ dec_step

InitDecode == new /\ scan_loop_start /\ run_app_start /\ decode_input

NextDecode ==
    \/ CallSummary
    \/ CallDetails
    \/ CallDecodedDetails

SpecDecode == InitDecode /\ [][NextDecode]_vars

(***************************************************************************)
(* Properties of AppState, checked under Spec                              *)
(***************************************************************************)

IdsOf(list) == {list[i].id : i \in 1..Len(list)}

Count(list, d) == Cardinality({i \in 1..Len(list) : list[i] = d})

(* a <= b for strings, stated over positions: after a common prefix of k   *)
(* bytes a has ended, or its next byte is the smaller one.                 *)
StrLe(a, b) ==
    \E k \in 0..Len(a) :
        /\ k <= Len(b)
        /\ \A i \in 1..k : a[i] = b[i]
        /\ \/ k = Len(a)
           \/ k < Len(b) /\ a[k + 1] < b[k + 1]

KeyLe(d, e) ==
    \/ d.name # e.name /\ StrLe(d.name, e.name)
    \/ d.name = e.name /\ StrLe(d.id, e.id)

(* C1: in every reachable AppState, the state built by AppState::new       *)
(* included, a non-empty device list has a selected index within           *)
(* 0..len-1 and an empty device list has no selected index.                *)
C1_SelectionMatchesList ==
    /\ devices # <<>> =>
          table_state # None /\ table_state[1] \in 0..(Len(devices) - 1)
    /\ devices = <<>> => table_state = None

(* C2: the explicit selected id, when present, is the id of a device of    *)
(* the current device list, never one a later snapshot dropped.            *)
C2_SelectedIdInList ==
    selected_id # None => selected_id[1] \in IdsOf(devices)

(* C2's case: the device that was selected is not in the batch applied.    *)
C2_Witness ==
    /\ op = "apply_Devices"
    /\ pre # None
    /\ pre[1] \notin IdsOf(msg.devices)
    /\ selected_id # None

(* C3: when the device with id X is selected and the batch given to        *)
(* apply(Devices) holds X (ids unique in the batch), then afterwards the   *)
(* selected index is the position of X in the sorted list and the explicit *)
(* selected id is X.                                                       *)
C3_SelectionFollowsId ==
    (/\ op = "apply_Devices"
     /\ pre # None
     /\ pre[1] \in IdsOf(msg.devices)
     /\ Cardinality(IdsOf(msg.devices)) = Len(msg.devices))
    => /\ selected_id = pre
       /\ \E i \in 1..Len(devices) : devices[i].id = pre[1]
       /\ \A i \in 1..Len(devices) :
             devices[i].id = pre[1] => table_state = Some(i - 1)

(* C3's case: X came first in the batch and is last in the sorted list of  *)
(* three, where it stays selected.                                         *)
C3_Witness ==
    /\ op = "apply_Devices"
    /\ pre # None
    /\ Len(msg.devices) = 3
    /\ msg.devices[1].id = pre[1]
    /\ table_state = Some(2)
    /\ selected_id = pre

(* C4: when the previously selected id is not in the batch given to        *)
(* apply(Devices), a non-empty batch leaves index 0 selected and the       *)
(* explicit selected id that of the first device in sorted order; an empty *)
(* batch leaves no index selected and no explicit selected id.             *)
C4_SelectionFallback ==
    (/\ op = "apply_Devices"
     /\ (pre = None \/ pre[1] \notin IdsOf(msg.devices)))
    => IF msg.devices = <<>>
       THEN table_state = None /\ selected_id = None
       ELSE /\ table_state = Some(0)
            /\ \E i \in 1..Len(msg.devices) :
                  /\ selected_id = Some(msg.devices[i].id)
                  /\ \A j \in 1..Len(msg.devices) :
                        KeyLe(msg.devices[i], msg.devices[j])

(* C4's case: a device was selected, the batch is non-empty and lacks it,  *)
(* and the device now selected came last in the batch.                     *)
C4_Witness ==
    /\ op = "apply_Devices"
    /\ pre # None
    /\ Len(msg.devices) >= 2
    /\ pre[1] \notin IdsOf(msg.devices)
    /\ table_state = Some(0)
    /\ selected_id = Some(msg.devices[Len(msg.devices)].id)

(* C5: after apply(Devices(list)) the device list is a rearrangement of    *)
(* list and is non-decreasing by (name, id), name first.                   *)
C5_SortedRearrangement ==
    op = "apply_Devices" =>
        /\ Len(devices) = Len(msg.devices)
        /\ \A i \in 1..Len(devices) :
              Count(devices, devices[i]) = Count(msg.devices, devices[i])
        /\ \A i \in 1..(Len(devices) - 1) : KeyLe(devices[i], devices[i + 1])

(* C5's case: a batch of three in descending order, two of its devices     *)
(* sharing a name, the third with a name that extends it.                  *)
C5_Witness ==
    /\ op = "apply_Devices"
    /\ Len(devices) = 3
    /\ devices[1] = msg.devices[3]
    /\ devices[3] = msg.devices[1]
    /\ devices[1].name = devices[2].name
    /\ devices[2].name # devices[3].name
    /\ devices[3].id = <<49>>

(* C6: on a non-empty list select_next moves the selected index from i to  *)
(* i+1 and from the last index to 0, select_previous from i to i-1 and     *)
(* from 0 to the last index, and the explicit selected id becomes that of  *)
(* the newly selected device; on an empty list both leave no index         *)
(* selected and no explicit selected id.                                   *)
C6_WrapAround ==
    LET len == Len(devices)
        moved(to) ==
            /\ table_state = Some(to)
            /\ selected_id = Some(devices[to + 1].id)
    IN  /\ (op \in {"select_next", "select_previous"} /\ len = 0) =>
              table_state = None /\ selected_id = None
        /\ (/\ op = "select_next" /\ len > 0
            /\ pre_index # None /\ pre_index[1] < len) =>
              moved(IF pre_index[1] = len - 1 THEN 0 ELSE pre_index[1] + 1)
        /\ (/\ op = "select_previous" /\ len > 0
            /\ pre_index # None /\ pre_index[1] < len) =>
              moved(IF pre_index[1] = 0 THEN len - 1 ELSE pre_index[1] - 1)

(* C6's case: select_next on the last of three devices.                    *)
C6_Witness ==
    /\ op = "select_next"
    /\ Len(devices) = 3
    /\ pre_index = Some(2)
    /\ table_state = Some(0)

(* C7: apply(Status(s)) replaces the status string and leaves the device   *)
(* list, the selected index and the explicit selected id as they were.     *)
C7_StatusOnly ==
    [][op' = "apply_Status" =>
          /\ status' = msg'.status
          /\ devices' = devices
          /\ table_state' = table_state
          /\ selected_id' = selected_id]_vars

(* C7's case: a scan error reported while devices are listed and one of    *)
(* them is selected.                                                       *)
C7_Witness ==
    /\ op = "apply_Status"
    /\ status = <<"Scan error: ", "timeout">>
    /\ Len(devices) >= 2
    /\ table_state = Some(1)

(***************************************************************************)
(* Properties of scan_loop, checked under SpecScan                         *)
(***************************************************************************)

(* C8: no poll cycle (a request for the peripherals) is started in a state *)
(* where the cancellation value is already true.                           *)
C8_NoCycleOnceCancelled ==
    [][(pc = "select" /\ pc' = "peripherals") => ~shutdown]_vars

(* C9: the loop is left only from its select!, with the cancellation value *)
(* read as true; a cycle that has started sends its one message and comes  *)
(* back to the select! (unless the runtime drops the task); and once the   *)
(* function has returned nothing more is sent.                             *)
C9_ExitAtCycleBoundary ==
    [][/\ (pc \in {"select", "peripherals"} /\ pc' = "done") =>
             pc = "select" /\ shutdown /\ changed /\ chan' = chan
       /\ (pc = "peripherals" /\ pc' # "peripherals") =>
             \/ pc' = "dropped" /\ chan' = chan
             \/ pc' = "select" /\ Len(chan') = Len(chan) + 1
       /\ pc = "done" => chan' = chan /\ pc' = "done"]_vars

(* C9's case: the loop was left, on the cancellation value, after two      *)
(* cycles had each sent their message.                                     *)
C9_Witness ==
    /\ pc = "done"
    /\ scanning
    /\ shutdown
    /\ requests = 2
    /\ Len(chan) = 2

(* C10: after a fatal setup error scan_loop has returned having sent       *)
(* exactly one message, a Status, without ever requesting the peripherals  *)
(* and without starting the interval of the loop.                          *)
C10_FatalSetupError ==
    setup_error # None =>
        /\ pc = "done"
        /\ Len(chan) = 1
        /\ chan[1].kind = "Status"
        /\ requests = 0
        /\ ~tick
        /\ ~scanning

(* C10's case: starting the scan on the first adapter failed.              *)
C10_Witness ==
    /\ setup_error = Some("start_scan")
    /\ adapter # None
    /\ chan = <<Status(<<"Scan failed: ", "timeout">>)>>

(***************************************************************************)
(* Further properties of AppState, checked under Spec                      *)
(***************************************************************************)

(* C19: select_next and select_previous change only the selected index and *)
(* the explicit selected id: the device list (contents and order) and the  *)
(* status string are as before, on an empty list and on a non-empty one.   *)
C19_SelectionFrame ==
    [][op' \in {"select_next", "select_previous"} =>
          devices' = devices /\ status' = status]_vars

(* C19's case: a step of the selection while an error is on the status     *)
(* line and two devices are listed.                                        *)
C19_Witness ==
    /\ op \in {"select_next", "select_previous"}
    /\ status # <<"Scanning...">>
    /\ status # <<"Starting scan...">>
    /\ Len(devices) = 2
    /\ table_state # pre_index

(* C20: in every reachable AppState the explicit selected id is the id of  *)
(* the device at the selected index when that index addresses a device of  *)
(* the list, and is none otherwise; so when apply(Devices) finds the       *)
(* explicit id unset, the index addresses no device either and the anchor  *)
(* it computes is none.                                                    *)
C20_IdAgreesWithIndex ==
    /\ selected_id =
          IF table_state # None /\ table_state[1] < Len(devices)
          THEN Some(devices[table_state[1] + 1].id)
          ELSE None
    /\ selected_id = None => anchor_id = None

(* C20's case: a batch was applied while no explicit id was set, the       *)
(* anchor was none, and the first device of the batch became selected.     *)
C20_Witness ==
    /\ op = "apply_Devices"
    /\ pre = None
    /\ Len(devices) >= 2
    /\ selected_id = Some(devices[1].id)

(***************************************************************************)
(* Further properties of scan_loop, checked under SpecScan                 *)
(***************************************************************************)

(* C11: every poll cycle that runs to its end sends exactly one message    *)
(* and returns to the select! of the loop. When the request for the        *)
(* peripherals fails the message is a Status whose text starts with        *)
(* "Scan error: ", and the loop goes on; when it succeeds the message is a *)
(* Devices holding one snapshot per reported peripheral, in the order      *)
(* reported. No other step of the loop sends anything.                     *)
C11_OneMessagePerCycle ==
    [][/\ (pc = "peripherals" /\ pc' \notin {"peripherals", "dropped"}) =>
             /\ pc' = "select"
             /\ peripherals' # None
             /\ Len(chan') = Len(chan) + 1
             /\ SubSeq(chan', 1, Len(chan)) = chan
             /\ LET sent == chan'[Len(chan')]
                    result == peripherals'[1]
                IN  /\ result.kind = "Err" =>
                          /\ sent.kind = "Status"
                          /\ sent.status[1] = "Scan error: "
                    /\ result.kind = "Ok" =>
                          /\ sent.kind = "Devices"
                          /\ Len(sent.devices) = Len(result.value)
                          /\ \A i \in 1..Len(result.value) :
                                sent.devices[i].id = result.value[i].id
       /\ (pc = "select" \/ (pc = "peripherals" /\ pc' # "select")) =>
             chan' = chan]_vars

(* C11's case: a failed cycle was followed by a cycle that reported two    *)
(* peripherals, the one without readable properties first, and the batch   *)
(* sent holds both in that order.                                          *)
C11_Witness ==
    /\ pc = "select"
    /\ Len(chan) = 2
    /\ chan[1] = Status(<<"Scan error: ", "timeout">>)
    /\ peripherals # None
    /\ peripherals[1].kind = "Ok"
    /\ peripherals[1].value = <<PeripheralC, PeripheralB>>
    /\ chan[2].kind = "Devices"
    /\ chan[2].devices[1].id = PeripheralC.id
    /\ chan[2].devices[2].id = PeripheralB.id

(***************************************************************************)
(* Properties of run_app and the task together, checked under SpecRun      *)
(***************************************************************************)

(* The states in which run_app is inside its loop.                         *)
InLoop == ui_pc \in {"drain", "draw", "poll"}

QuitKeys == {Some("q"), Some("Esc")}

(* C12: after a fatal setup error the interactive loop keeps running: it   *)
(* is left only on a quit key (or a failure of the terminal), never        *)
(* because the channel is closed; unless it is left first, the single      *)
(* fatal Status is eventually applied and the loop goes on to draw and to  *)
(* poll for keys; and once that Status has been applied the status line is *)
(* its text and the device list is empty in every later state.             *)
C12_FatalStatusStays ==
    /\ [](setup_error # None /\ applied # <<>> =>
            /\ applied = emitted
            /\ Len(applied) = 1
            /\ applied[1].kind = "Status"
            /\ status = applied[1].status
            /\ devices = <<>>)
    /\ [][(InLoop /\ ~InLoop') =>
             ui_pc' = "failed" \/ event' \in QuitKeys]_ui_pc
    /\ (setup_error # None) ~> (applied # <<>> \/ ~InLoop)
    /\ (setup_error # None /\ applied # <<>>) ~> (ui_pc = "poll" \/ ~InLoop)

(* C12's case: no adapter was found, the Status was applied, and the loop  *)
(* is polling for keys after the user has moved the selection.             *)
C12_Witness ==
    /\ setup_error = Some("no adapter")
    /\ pc = "done"
    /\ status = <<"No BLE adapters found">>
    /\ devices = <<>>
    /\ event = Some("Down")
    /\ ui_pc = "poll"

(* C13: shutdown_tx.send(true) is called only after a quit key, and once;  *)
(* it stores true whenever the task still holds the receiver; the value,   *)
(* once true, never goes back to false; and after the quit key run_app     *)
(* returns, whatever the task is doing.                                    *)
C13_QuitPublishesOnceAndReturns ==
    /\ [][shutdown => shutdown']_shutdown
    /\ [][sends' # sends =>
             /\ sends = 0 /\ sends' = 1
             /\ event \in QuitKeys
             /\ pc \notin {"done", "dropped"} => shutdown']_sends
    /\ [](/\ shutdown => sends = 1
          /\ ui_pc \in {"shutdown_timeout", "exited"} => sends = 1
          /\ InLoop => sends = 0)
    /\ (event \in QuitKeys) ~> (ui_pc = "exited")

(* C13's case: run_app has returned after a quit while the task is still   *)
(* inside adapter.peripherals().                                           *)
C13_Witness ==
    /\ ui_pc = "exited"
    /\ event = Some("Esc")
    /\ sends = 1
    /\ shutdown
    /\ pc = "peripherals"

(* The last Devices message of a sequence of messages, if any.             *)
LastDevices(messages) ==
    LET at == {i \in 1..Len(messages) : messages[i].kind = "Devices"}
    IN  IF at = {} THEN None
        ELSE Some(messages[CHOOSE i \in at : \A j \in at : j <= i])

(* C17: the messages given to apply are the messages the channel accepted, *)
(* in the order it accepted them, none left out and none twice: what has   *)
(* been applied followed by what is still queued is what was accepted. A   *)
(* frame is drawn only straight after a try_recv that found the channel    *)
(* empty, on the state those messages produce: the devices of the last     *)
(* batch applied, and the status of the last message applied.              *)
C17_AppliedInOrder ==
    /\ [](/\ Len(applied) <= Len(emitted)
          /\ applied = SubSeq(emitted, 1, Len(applied))
          /\ rx_alive => applied \o chan = emitted
          /\ IF LastDevices(applied) = None THEN devices = <<>>
             ELSE /\ Len(devices) = Len(LastDevices(applied)[1].devices)
                  /\ IdsOf(devices) = IdsOf(LastDevices(applied)[1].devices)
          /\ status =
               IF applied = <<>> THEN <<"Starting scan...">>
               ELSE IF applied[Len(applied)].kind = "Devices"
                    THEN <<"Scanning...">>
                    ELSE applied[Len(applied)].status)
    /\ [][/\ (ui_pc # "draw" /\ ui_pc' = "draw") =>
                ui_pc = "drain" /\ chan = <<>> /\ applied \o chan = emitted
          /\ ui_pc = "draw" => applied' = applied]_vars

(* C17's case: a frame is about to be drawn after three messages were      *)
(* applied, two of them taken from the channel in the same drain.          *)
C17_Witness ==
    /\ ui_pc = "draw"
    /\ Len(applied) = 3
    /\ applied[1].kind = "Devices"
    /\ applied[2].kind = "Status"
    /\ applied[3].kind = "Devices"
    /\ applied[3].devices # <<>>
    /\ op = "apply_Devices"
    /\ event = None

(***************************************************************************)
(* Properties of scan_loop on its own, checked under SpecScanFair          *)
(***************************************************************************)

(* C18: once true has been stored on the cancellation channel while the    *)
(* task is in its loop, the function eventually returns: with calls into   *)
(* the BLE library that return and a select! fair to its two branches, the *)
(* loop cannot go on running poll cycles for ever.                         *)
C18_StopEventuallyObserved ==
    (shutdown /\ pc \in {"select", "peripherals"}) ~> (pc = "done")

(* C18's case: the function has returned on the stop value after a poll    *)
(* cycle that ran while the value was already true (its message was not    *)
(* taken, the receiving end being gone).                                   *)
C18_Witness ==
    /\ pc = "done"
    /\ shutdown
    /\ ~rx_alive
    /\ peripherals # None
    /\ Len(chan) < requests

(***************************************************************************)
(* Properties of the decoders, checked under SpecDecode                    *)
(***************************************************************************)

(* How many items the first n decoders of the registry report.             *)
RECURSIVE ItemsBefore(_)
ItemsBefore(n) ==
    IF n = 0 THEN 0
    ELSE ItemsBefore(n - 1)
           + Len(details(decoders[n], manufacturer_data).value)

(* C14: the composed details are the details of every decoder of the       *)
(* registry, one decoder after the other in registration order: as many    *)
(* items as the decoders report together, the items of decoder k standing, *)
(* in their own order, after all the items of the decoders before k.       *)
C14_DetailsConcatenated ==
    "decoded_details" \in ran =>
        /\ ~decoded_out.panic
        /\ Len(decoded_out.value) = ItemsBefore(Len(decoders))
        /\ \A k \in 1..Len(decoders) :
              LET own == details(decoders[k], manufacturer_data).value
              IN  \A i \in 1..Len(own) :
                     decoded_out.value[ItemsBefore(k - 1) + i] = own[i]

(* C14's case: four decoders, the second reporting nothing, the third the  *)
(* two items of a Ruuvi payload: five items in all.                        *)
C14_Witness ==
    /\ "decoded_details" \in ran
    /\ Len(decoders) = 4
    /\ Len(decoded_out.value) = 5
    /\ decoded_out.value[1] = Beacon
    /\ decoded_out.value[3].label = "Ruuvi temperature"
    /\ decoded_out.value[5] = Battery

(* The payloads stored under the company id of Ruuvi (at most one).        *)
RuuviPayloads ==
    {manufacturer_data[i][2] :
        i \in {j \in 1..Len(manufacturer_data) :
                  manufacturer_data[j][1] = 1177}}

(* C15: when the device has no entry under company id 0x0499, or the entry *)
(* is shorter than five bytes (empty included), or its first byte is not   *)
(* 0x05, the summary of the Ruuvi decoder is none and its details are      *)
(* empty; and neither call panics, whatever the bytes.                     *)
C15_NotApplicable ==
    LET not_applicable ==
            \A p \in RuuviPayloads : Len(p) < 5 \/ p[1] # 5
    IN  /\ "summary" \in ran =>
              /\ ~summary_out.panic
              /\ not_applicable => summary_out.value = None
        /\ "details" \in ran =>
              /\ ~details_out.panic
              /\ not_applicable => details_out.value = <<>>

(* C15's case: a Ruuvi entry of format 5 cut off after four bytes, decoded *)
(* by both calls.                                                          *)
C15_Witness ==
    /\ ran = {"summary", "details"}
    /\ RuuviPayloads = {<<5, 1, 144, 39>>}
    /\ summary_out = Returned(None)
    /\ details_out = Returned(<<>>)

(* The text of so many tenths, with one decimal.                           *)
OneDecimal(negative, t) ==
    (IF negative THEN "-" ELSE "")
        \o ToString(t \div 10) \o "." \o ToString(t % 10)

(* The texts that show raw / per_tenth tenths with one decimal: the        *)
(* number of tenths is a nearest integer to raw / per_tenth.               *)
NearestTexts(raw, per_tenth, unit) ==
    LET size == IF raw < 0 THEN 0 - raw ELSE raw
    IN  {OneDecimal(raw < 0, t) \o unit :
            t \in {u \in {size \div per_tenth, size \div per_tenth + 1} :
                      /\ 2 * (per_tenth * u - size) <= per_tenth
                      /\ 2 * (size - per_tenth * u) <= per_tenth}}

(* C16: for a payload of format 5, the temperature is left out exactly     *)
(* when bytes 1-2, read as a signed 16-bit big-endian integer, are -32768, *)
(* and is otherwise that integer times 0.005 with one decimal and " C";    *)
(* the humidity is left out exactly when bytes 3-4, read as an unsigned    *)
(* 16-bit big-endian integer, are 65535, and is otherwise that integer     *)
(* times 0.0025 with one decimal and "%". The summary is the fields shown, *)
(* joined by a space, or none; the details are one item per field shown.   *)
(* [05 01 90 27 10] gives "2.0 C 25.0%", [05 80 00 FF FF] gives nothing.   *)
C16_Format5Values ==
    \A p \in RuuviPayloads :
        (Len(p) >= 5 /\ p[1] = 5) =>
            LET temp_raw ==
                    IF p[2] >= 128 THEN (p[2] - 256) * 256 + p[3]
                    ELSE p[2] * 256 + p[3]
                humidity_raw == p[4] * 256 + p[5]
                temps ==
                    IF temp_raw = -32768 THEN {<<>>}
                    ELSE {<<t>> : t \in NearestTexts(temp_raw, 20, " C")}
                humidities ==
                    IF humidity_raw = 65535 THEN {<<>>}
                    ELSE {<<h>> : h \in NearestTexts(humidity_raw, 40, "%")}
            IN  /\ \E t \in temps, h \in humidities :
                      /\ "summary" \in ran =>
                            summary_out =
                              Returned(IF t \o h = <<>> THEN None
                                       ELSE IF Len(t \o h) = 1 THEN t \o h
                                       ELSE <<t[1] \o " " \o h[1]>>)
                      /\ "details" \in ran =>
                            details_out =
                              Returned(
                                [i \in 1..Len(t) |->
                                    [label |-> "Ruuvi temperature",
                                     value |-> t[1]]]
                                \o [i \in 1..Len(h) |->
                                      [label |-> "Ruuvi humidity",
                                       value |-> h[1]]])
                /\ (p = <<5, 1, 144, 39, 16>> /\ ran = {"summary", "details"})
                      => /\ summary_out.value = <<"2.0 C 25.0%">>
                         /\ details_out.value =
                              <<[label |-> "Ruuvi temperature",
                                 value |-> "2.0 C"],
                                [label |-> "Ruuvi humidity",
                                 value |-> "25.0%"]>>
                /\ (p = <<5, 128, 0, 255, 255>> /\ ran = {"summary", "details"})
                      => /\ summary_out.value = <<>>
                         /\ details_out.value = <<>>

(* C16's case: the largest temperature below zero, which prints as "-0.0", *)
(* with a humidity of 100 %.                                               *)
C16_Witness ==
    /\ ran = {"summary", "details"}
    /\ RuuviPayloads = {<<5, 255, 255, 156, 64>>}
    /\ summary_out.value = <<"-0.0 C 100.0%">>
    /\ Len(details_out.value) = 2

====
